---- MODULE Spec2Model ----
(***************************************************************************)
(* Session authentication and per-action authorization of the storefront   *)
(* backend (src/src/main.rs): login, logout, validate_user, create_admin,  *)
(* delete_admin and the privileged catalog handlers, over the admins,      *)
(* permissions, products, product_variants and website_information tables; *)
(* the variant tag codec (VarTag, ProductVariant::try_from); and login,     *)
(* validate_user and logout statement by statement on two connections.     *)
(*                                                                         *)
(* Text columns are modelled by what the code writes into them and by what *)
(* the code's parsers accept: a stored timestamp is a record {fmt, t}, a   *)
(* stored date a record {fmt, day}; a parser succeeds only on the format   *)
(* it is given.  Time is counted in minutes.                               *)
(***************************************************************************)
EXTENDS Integers, Sequences, FiniteSets, TLC

VARIABLES
    admins,               \* table admins: username -> row (username is the key)
    permissions,          \* table permissions: set of <<username, permission>>
    products,             \* table products: product_id -> row
    product_variants,     \* table product_variants: var_id -> row
    website_information,  \* table website_information: the stored descriptions
    now,                  \* Utc::now(), in minutes
    issued,               \* history: issued[i] is the account login gave token Uuid(i)
    created,              \* history: the password each existing account was created with
    schemaTokenExpires,   \* whether table admins has a column named token_expires
    result,               \* the response of the last request
    inflight              \* the requests being handled concurrently, by connection

vars == <<admins, permissions, products, product_variants, website_information,
          now, issued, created, schemaTokenExpires, result, inflight>>

catalog == <<products, product_variants, website_information>>

----------------------------------------------------------------------------
(* Bounds and program constants *)

MaxLogins == 2          \* tokens login may issue in one behaviour
TTL == 5                \* Duration::minutes(5)
TicksPerDay == 1440     \* minutes in a calendar day (NaiveDateTime::date)

Users == {"alice", "bob"}
Passwords == {"pw1", "pw2"}            \* what a login form may submit
NewPasswords == {"pw2"}                \* what a create_admin form may submit
Salts == {"a1B2c3D4e5F6g7H8"}

StartTime == TicksPerDay - 1          \* the first request arrives at 23:59 of day 0
\* the instants at which requests arrive: 23:59 and 00:00, the minute a token
\* written at 23:59 expires, the minute after, and 00:00 one day later
Times == {StartTime + k : k \in {0, 1, TTL, TTL + 1, TicksPerDay + 1}}
Day(t) == t \div TicksPerDay

----------------------------------------------------------------------------
(* Column values *)

NULL == <<"null", 0>>                 \* SQL NULL in column token
EmptyStr == <<"", 0>>                 \* the empty string ""
NoCookie == <<"absent", 0>>           \* jar.get("token") is None
SeedToken == <<"seed", 1>>            \* a token already stored when the server starts
Uuid(n) == <<"uuid", n>>              \* the n-th value of Uuid::new_v4()

NullText == [fmt |-> "null", t |-> 0] \* SQL NULL in column token_expiration

\* DateTime<Utc>::to_rfc3339: "YYYY-MM-DDTHH:MM:SS.fffffffff+00:00"
to_rfc3339(t) == [fmt |-> "rfc3339", t |-> t]

\* a timestamp written as "YYYY-MM-DD HH:MM:SS"
SqlDateTime(t) == [fmt |-> "sql", t |-> t]

\* NaiveDateTime::parse_from_str(s, "%Y-%m-%d %H:%M:%S")
parse_token_expiration(text) ==
    IF text.fmt = "sql" THEN [ok |-> TRUE, t |-> text.t] ELSE [ok |-> FALSE, t |-> 0]

\* the form's expiration string, stored as submitted
YmdDate(d) == [fmt |-> "ymd", day |-> d]
BadDate == [fmt |-> "bad", day |-> 0]

\* NaiveDate::parse_from_str(s, "%Y-%m-%d")
parse_expiration_date(text) ==
    IF text.fmt = "ymd" THEN [ok |-> TRUE, day |-> text.day] ELSE [ok |-> FALSE, day |-> 0]

\* hash_password: SHA-256, hex encoded (collision free on the inputs drawn here)
hash_password(password) == <<"sha256", password>>

\* format!("{}{}", password, salt)
SaltOnly(password, salt) == salt
salted(password, salt) == password \o salt

NewRowWithToken(password, salt, expiration) ==
    [password |-> hash_password(salted(password, salt)), salt |-> salt,
     expiration |-> expiration, token |-> SeedToken,
     token_expiration |-> SqlDateTime(StartTime + TTL)]
NewRowFixedExpiration(password, salt, expiration) ==
    [password |-> hash_password(salted(password, salt)), salt |-> salt,
     expiration |-> YmdDate(1), token |-> NULL, token_expiration |-> NullText]
\* the row create_admin inserts: token and token_expiration are not set
NewRow(password, salt, expiration) ==
    [password |-> hash_password(salted(password, salt)), salt |-> salt,
     expiration |-> expiration, token |-> NULL, token_expiration |-> NullText]

----------------------------------------------------------------------------
(* Responses *)

Ok == "Ok"
UnknownToken == "Token does not exist."
RetrieveFailed == "Failed to retrieve token expiration."
ParseFailed == "Failed to parse token expiration."
Forbidden == "User did not have correct permissions"
CleanupFailed == "Could not remove token from database"
TokenExpired == "Token has expired."
NotChecked == "not checked"           \* the handler did not call validate_user

\* no request is being answered
Idle == [op |-> "idle", token |-> NoCookie, perm |-> "", auth |-> NotChecked, user |-> "",
         status |-> "", username |-> "", password |-> ""]

Response(op, cookie, perm, auth, user, status, username, password) ==
    [op |-> op, token |-> cookie, perm |-> perm, auth |-> auth, user |-> user,
     status |-> status, username |-> username, password |-> password]

\* the connections that handle requests concurrently
Connections == {1, 2}

\* a connection that handles no request; row holds the row a SELECT returned
NoRequest == [pc |-> "idle", op |-> "", token |-> NoCookie, perm |-> "", username |-> "",
              password |-> "", row |-> <<>>, expiration |-> 0, auth |-> NotChecked,
              status |-> ""]

----------------------------------------------------------------------------
(* validate_user *)

\* token_expires > now
TokenLiveOrEqual(token_expires, t) == token_expires >= t
TokenLive(token_expires, t) == token_expires > t

\* the rows of permissions for username, filtered by perm == permission
AnyPermission(username, permission) ==
    \E g \in permissions : g[1] = username
HasPermission(username, permission) ==
    \E g \in permissions : g[1] = username /\ g[2] = permission

ClearEveryToken(token) ==
    [ok |-> TRUE, admins |-> [u \in DOMAIN admins |-> [admins[u] EXCEPT !.token = NULL]]]
\* UPDATE admins SET token = NULL, token_expires = NULL WHERE token = ?
\* the statement names column token_expires: it fails when the table has none
ClearExpired(token) ==
    IF schemaTokenExpires
    THEN [ok |-> TRUE,
          admins |-> [u \in DOMAIN admins |->
                        IF admins[u].token = token
                        THEN [admins[u] EXCEPT !.token = NULL]
                        ELSE admins[u]]]
    ELSE [ok |-> FALSE, admins |-> admins]

\* Ok(username): the store is left as it is
AcceptedRenewing(u) ==
    [auth |-> Ok, user |-> u,
     admins |-> [admins EXCEPT ![u].token_expiration = SqlDateTime(now + TTL)]]
Accepted(u) == [auth |-> Ok, user |-> u, admins |-> admins]

\* SELECT * FROM admins WHERE token = ?
RowsWithToken(token) == {u \in DOMAIN admins : admins[u].token = token}

\* returns the outcome, the username of an Ok, and table admins as it leaves it
validate_user(token, permission) ==
    LET rows == RowsWithToken(token)
        fail(msg) == [auth |-> msg, user |-> "", admins |-> admins]
    IN  IF rows = {} THEN fail(UnknownToken)
        ELSE LET u == CHOOSE r \in rows : TRUE
                 row == admins[u]
                 parsed == parse_token_expiration(row.token_expiration)
             IN  IF row.token_expiration = NullText THEN fail(RetrieveFailed)
                 ELSE IF ~parsed.ok THEN fail(ParseFailed)
                 ELSE IF TokenLive(parsed.t, now)
                      THEN IF HasPermission(u, permission)
                           THEN Accepted(u)
                           ELSE fail(Forbidden)
                      ELSE LET cleared == ClearExpired(token)
                           IN  IF cleared.ok
                               THEN [auth |-> TokenExpired, user |-> "",
                                     admins |-> cleared.admins]
                               ELSE fail(CleanupFailed)

\* match validate_user(..) { Ok(_) => {} Err(e) => return Err(..) }
AllowedAlsoForbidden(v) == v.auth \in {Ok, Forbidden}
Allowed(v) == v.auth = Ok

\* jar.get("token").map(|x| x.value()).unwrap_or("")
TokenOrEmpty(cookie) == IF cookie = NoCookie THEN EmptyStr ELSE cookie

\* what a client can put in its token cookie
Cookies == {NoCookie, EmptyStr, SeedToken} \cup {Uuid(i) : i \in 1..Len(issued)}

----------------------------------------------------------------------------
(* login, logout *)

\* generate_token_and_expiration
generate_token_and_expiration ==
    [token |-> Uuid(Len(issued) + 1), expiration |-> now + TTL]

\* now > expiration_date
AccountExpiredOrToday(today, expiration_date) == today >= expiration_date
AccountExpired(today, expiration_date) == today > expiration_date

RemoveNothing(table, key) == table
\* DELETE FROM admins WHERE username = ?
RemoveRow(table, key) == [k \in DOMAIN table \ {key} |-> table[k]]

LoginStoreTokenOnly(username, t) ==
    [admins EXCEPT ![username].token = t.token]
LoginStoreKeepsOld(username, t) ==
    [admins EXCEPT ![username].token =
                       IF admins[username].token = NULL THEN t.token ELSE @,
                   ![username].token_expiration = to_rfc3339(t.expiration)]
\* UPDATE admins SET token = ?, token_expiration = ? WHERE username = ?
LoginStore(username, t) ==
    [admins EXCEPT ![username].token = t.token,
                   ![username].token_expiration = to_rfc3339(t.expiration)]

login(username, password) ==
    LET reply(status, tok) ==
            Response("login", tok, "", NotChecked, "", status, username, password)
    IN
    IF username \notin DOMAIN admins
    THEN /\ result' = reply("Database error", NoCookie)
         /\ UNCHANGED <<admins, permissions, catalog, now, issued, created,
                        schemaTokenExpires, inflight>>
    ELSE LET row == admins[username]
             expiration_date == parse_expiration_date(row.expiration)
         IN
         IF ~expiration_date.ok
         THEN /\ result' = reply("Date parse error", NoCookie)
              /\ UNCHANGED <<admins, permissions, catalog, now, issued, created,
                             schemaTokenExpires, inflight>>
         ELSE IF AccountExpired(Day(now), expiration_date.day)
         THEN /\ admins' = RemoveRow(admins, username)
              /\ created' = [created EXCEPT ![username] = ""]
              /\ result' = reply("Admin account has expired and has been removed.", NoCookie)
              /\ UNCHANGED <<permissions, catalog, now, issued, schemaTokenExpires, inflight>>
         ELSE IF hash_password(salted(password, row.salt)) = row.password
         THEN LET t == generate_token_and_expiration
              IN  /\ Len(issued) < MaxLogins
                  /\ admins' = LoginStore(username, t)
                  /\ issued' = Append(issued, username)
                  /\ result' = reply("Login successful.", t.token)
                  /\ UNCHANGED <<permissions, catalog, now, created, schemaTokenExpires, inflight>>
         ELSE /\ result' = reply("Invalid username or password.", NoCookie)
              /\ UNCHANGED <<admins, permissions, catalog, now, issued, created,
                             schemaTokenExpires, inflight>>

logoutKeepsExpiration(cookie) ==
    /\ admins' = IF cookie = NoCookie THEN admins
                 ELSE [u \in DOMAIN admins |->
                         IF admins[u].token = cookie
                         THEN [admins[u] EXCEPT !.token = NULL]
                         ELSE admins[u]]
    /\ result' = Response("logout", cookie, "", NotChecked, "", "", "", "")
    /\ UNCHANGED <<permissions, catalog, now, issued, created, schemaTokenExpires, inflight>>
\* UPDATE admins SET token = NULL, token_expiration = NULL WHERE token = ?
logout(cookie) ==
    /\ admins' = IF cookie = NoCookie THEN admins
                 ELSE [u \in DOMAIN admins |->
                         IF admins[u].token = cookie
                         THEN [admins[u] EXCEPT !.token = NULL,
                                                !.token_expiration = NullText]
                         ELSE admins[u]]
    /\ result' = Response("logout", cookie, "", NotChecked, "", "", "", "")
    /\ UNCHANGED <<permissions, catalog, now, issued, created, schemaTokenExpires, inflight>>

----------------------------------------------------------------------------
(* handlers that only read *)

\* SELECT username FROM admins WHERE token = ?, fetch_one: the stored
\* token_expiration is not read
current_user(cookie) ==
    LET rows == IF cookie = NoCookie THEN {}
                ELSE {u \in DOMAIN admins : admins[u].token = cookie}
    IN  /\ result' = Response("current_user", cookie, "", NotChecked,
                              IF rows = {} THEN "" ELSE CHOOSE u \in rows : TRUE,
                              IF rows = {} THEN "None" ELSE "Some", "", "")
        /\ UNCHANGED <<admins, permissions, catalog, now, issued, created,
                       schemaTokenExpires, inflight>>

admin_menu(cookie) ==
    IF cookie = NoCookie
    THEN /\ result' = Response("admin_menu", cookie, "admin", NotChecked, "",
                               "No valid token found.", "", "")
         /\ UNCHANGED <<admins, permissions, catalog, now, issued, created,
                        schemaTokenExpires, inflight>>
    ELSE LET v == validate_user(cookie, "admin")
         IN  /\ admins' = v.admins
             /\ result' = Response("admin_menu", cookie, "admin", v.auth, v.user,
                                   IF v.auth = Ok THEN "Access granted." ELSE v.auth,
                                   "", "")
             /\ UNCHANGED <<permissions, catalog, now, issued, created,
                            schemaTokenExpires, inflight>>

get_admins(cookie) ==
    LET v == validate_user(TokenOrEmpty(cookie), "adminlist")
    IN  /\ admins' = v.admins
        /\ result' = Response("get_admins", cookie, "adminlist", v.auth, v.user,
                              IF v.auth = Ok THEN "usernames" ELSE "Unauthorized",
                              "", "")
        /\ UNCHANGED <<permissions, catalog, now, issued, created, schemaTokenExpires, inflight>>

----------------------------------------------------------------------------
(* create_admin, delete_admin *)

\* what the form's expiration field may hold
ExpirationInputs == {YmdDate(0), YmdDate(1), BadDate}

\* the token check of create_admin: only `if let Some(token_value) = token`
CreateAdminGate(cookie) ==
    IF cookie = NoCookie
    THEN [auth |-> NotChecked, user |-> "", admins |-> admins]
    ELSE validate_user(cookie, "admincreate")

\* the INSERT into admins fails when a row of that username exists
UsernameNeverTaken(username) == FALSE
UsernameTaken(username) == username \in DOMAIN admins

\* the outcomes of the INSERT into permissions: it fails when (username, 'admin')
\* is stored and the table has the composite uniqueness of the layout; without
\* that constraint a second equal row is stored, which no query tells from one
GrantInsertFails(username) ==
    IF <<username, "admin">> \in permissions THEN BOOLEAN ELSE {FALSE}

\* Err(_) => Err(Status::InternalServerError): the inserted admins row stays
RolledBack(before, inserted) == before
AfterFailedGrant(before, inserted) == inserted

\* INSERT INTO admins (username, salt, password, expiration): username is unique
\* INSERT INTO permissions (username, permission) VALUES (?, 'admin')
create_admin(cookie, username, password, expiration, salt) ==
    LET v == CreateAdminGate(cookie)
        reply(status) ==
            Response("create_admin", cookie, "admincreate", v.auth, v.user, status,
                     username, "")
    IN
    IF v.auth \notin {Ok, NotChecked}
    THEN /\ admins' = v.admins
         /\ result' = reply("Unauthorized")
         /\ UNCHANGED <<permissions, catalog, now, issued, created, schemaTokenExpires, inflight>>
    ELSE IF UsernameTaken(username)
    THEN /\ result' = reply("InternalServerError")
         /\ UNCHANGED <<admins, permissions, catalog, now, issued, created,
                        schemaTokenExpires, inflight>>
    ELSE \E fails \in GrantInsertFails(username) :
         LET inserted == [u \in DOMAIN admins \cup {username} |->
                            IF u = username THEN NewRow(password, salt, expiration)
                            ELSE admins[u]]
         IN  /\ admins' = IF fails THEN AfterFailedGrant(admins, inserted) ELSE inserted
             /\ permissions' = IF fails THEN permissions
                               ELSE permissions \cup {<<username, "admin">>}
             /\ created' = [created EXCEPT ![username] = password]
             /\ result' = reply(IF fails THEN "InternalServerError"
                                ELSE "Admin user created successfully.")
                            @@ [expiration |-> expiration]
             /\ UNCHANGED <<catalog, now, issued, schemaTokenExpires, inflight>>

delete_admin_cascade(cookie, username) ==
    LET v == validate_user(TokenOrEmpty(cookie), "admindelete")
    IN  /\ admins' = IF Allowed(v) THEN RemoveRow(admins, username) ELSE v.admins
        /\ permissions' = IF Allowed(v) THEN {g \in permissions : g[1] # username}
                          ELSE permissions
        /\ created' = IF Allowed(v) THEN [created EXCEPT ![username] = ""] ELSE created
        /\ result' = Response("delete_admin", cookie, "admindelete", v.auth, v.user,
                              IF Allowed(v) THEN "Admin user deleted successfully."
                              ELSE "Unauthorized", username, "")
        /\ UNCHANGED <<catalog, now, issued, schemaTokenExpires, inflight>>
\* DELETE FROM admins WHERE username = ?
delete_admin(cookie, username) ==
    LET v == validate_user(TokenOrEmpty(cookie), "admindelete")
        reply(status) ==
            Response("delete_admin", cookie, "admindelete", v.auth, v.user, status,
                     username, "")
    IN
    IF ~Allowed(v)
    THEN /\ admins' = v.admins
         /\ result' = reply("Unauthorized")
         /\ UNCHANGED <<permissions, catalog, now, issued, created, schemaTokenExpires, inflight>>
    ELSE /\ admins' = RemoveRow(admins, username)
         /\ created' = [created EXCEPT ![username] = ""]
         /\ result' = reply("Admin user deleted successfully.")
         /\ UNCHANGED <<permissions, catalog, now, issued, schemaTokenExpires, inflight>>

----------------------------------------------------------------------------
(* the privileged catalog handlers *)

MaxProducts == 1        \* rows table products may hold
MaxVariants == 1        \* rows table product_variants may hold

ProductNames == {"shirt"}
ProductDescs == {"d1", "d2"}
WebsiteInputs == {"v1"}
Quantities == {3}

Size(label) == [kind |-> "Size", label |-> label]
Color(label) == [kind |-> "Color", label |-> label]
Fitted(b) == [kind |-> "Fitted", label |-> IF b THEN "true" ELSE "false"]

\* the tag lists a variant form may submit
TagInputs == {<<>>, <<Size("small")>>, <<Color("purple"), Size("large")>>}

\* String::to_lowercase followed by Capitalize::capitalize, on the labels drawn here
LowerCapitalized(label) ==
    CASE label = "small" -> "Small"
      [] label = "medium" -> "Medium"
      [] label = "large" -> "Large"
      [] label = "white" -> "White"
      [] label = "red" -> "Red"
      [] label = "blue" -> "Blue"
      [] label = "purple" -> "Purple"
      [] label = "-Large" -> "-large"
      [] label = "Red" -> "Red"
      [] label = "" -> ""

\* VarTag::to_string
VarTag_to_string(tag) ==
    IF tag.kind = "Fitted"
    THEN (IF tag.label = "true" THEN "Fitted" ELSE "Snap")
    ELSE LowerCapitalized(tag.label)

\* tag_mapping of add_product_variant
tag_mapping ==
    << <<"small", Size("small")>>, <<"medium", Size("medium")>>, <<"large", Size("large")>>,
       <<"white", Color("white")>>, <<"red", Color("red")>>, <<"blue", Color("blue")>>,
       <<"fitted", Fitted(TRUE)>>, <<"snap", Fitted(FALSE)>> >>

\* a text column: NULL, or the whitespace separated tokens of the text
NullTags == [null |-> TRUE, tokens |-> <<>>]
TagText(tokens) == [null |-> FALSE, tokens |-> tokens]

\* .map(|e| e.to_string()).reduce(|x, y| x + " " + &y): None for an empty list
modify_variant_text(tags) ==
    IF tags = <<>> THEN NullTags
    ELSE TagText([i \in 1..Len(tags) |-> VarTag_to_string(tags[i])])

RECURSIVE normalized_tags(_)
\* .map(find in tag_mapping).filter_map(|t| t)
normalized_tags(tags) ==
    IF tags = <<>> THEN <<>>
    ELSE LET hits == {i \in 1..Len(tag_mapping) : tag_mapping[i][2] = Head(tags)}
             rest == normalized_tags(Tail(tags))
         IN  IF hits = {} THEN rest
             ELSE <<tag_mapping[CHOOSE i \in hits : \A j \in hits : i <= j][1]>> \o rest

\* what may follow the prefix "size" or "color" in the tokens drawn here
Rests == {"", "small", "large", "red", "-Large", "Red"}

\* s.starts_with(prefix)
starts_with(s, prefix) == \E r \in Rests : s = prefix \o r

\* s[n..], n the length of the prefix s starts with
after_prefix(s, prefix) == CHOOSE r \in Rests : s = prefix \o r

NoTag == [ok |-> FALSE, tag |-> Fitted(FALSE)]
SomeTag(tag) == [ok |-> TRUE, tag |-> tag]

from_str_without_color(s) ==
    IF starts_with(s, "size") THEN SomeTag(Size(after_prefix(s, "size")))
    ELSE IF s = "fitted" THEN SomeTag(Fitted(TRUE))
    ELSE IF s = "snap" THEN SomeTag(Fitted(FALSE))
    ELSE NoTag
\* VarTag::from_str
from_str(s) ==
    IF starts_with(s, "size") THEN SomeTag(Size(after_prefix(s, "size")))
    ELSE IF starts_with(s, "color") THEN SomeTag(Color(after_prefix(s, "color")))
    ELSE IF s = "fitted" THEN SomeTag(Fitted(TRUE))
    ELSE IF s = "snap" THEN SomeTag(Fitted(FALSE))
    ELSE NoTag

\* str::split_whitespace on the joined text: the pieces that are not empty
split_whitespace(text) == SelectSeq(text.tokens, LAMBDA t : t # "")

RECURSIVE filter_map_parse(_)
\* .filter_map(|s| s.parse().ok()).collect()
filter_map_parse(tokens) ==
    IF tokens = <<>> THEN <<>>
    ELSE LET parsed == from_str(Head(tokens))
             rest == filter_map_parse(Tail(tokens))
         IN  IF parsed.ok THEN <<parsed.tag>> \o rest ELSE rest

\* the tag_name field of ProductVariant::try_from: try_get::<String> fails on NULL
try_from_tag_name(text) ==
    IF text.null THEN [ok |-> FALSE, tags |-> <<>>]
    ELSE [ok |-> TRUE, tags |-> filter_map_parse(split_whitespace(text))]

\* .map(|tag| tag.to_string()).collect::<Vec<String>>().join(" ")
join_to_string(tags) == TagText([i \in 1..Len(tags) |-> VarTag_to_string(tags[i])])

NextId(table) ==
    IF DOMAIN table = {} THEN 1
    ELSE 1 + (CHOOSE i \in DOMAIN table : \A j \in DOMAIN table : j <= i)

Insert(table, row) ==
    [k \in DOMAIN table \cup {NextId(table)} |->
        IF k \in DOMAIN table THEN table[k] ELSE row]

\* the token check every privileged catalog handler starts with
Gate(cookie, permission) == validate_user(TokenOrEmpty(cookie), permission)

Refused(op, cookie, permission, v) ==
    /\ admins' = v.admins
    /\ result' = Response(op, cookie, permission, v.auth, v.user, "Not logged in", "", "")
    /\ UNCHANGED <<permissions, catalog, now, issued, created, schemaTokenExpires, inflight>>

\* insert into products (name, desc, price, quantity)
add_product(cookie, name, desc) ==
    LET v == Gate(cookie, "addproduct")
    IN  IF ~Allowed(v) THEN Refused("add_product", cookie, "addproduct", v)
        ELSE /\ Cardinality(DOMAIN products) < MaxProducts
             /\ products' = Insert(products, [name |-> name, desc |-> desc])
             /\ result' = Response("add_product", cookie, "addproduct", v.auth, v.user,
                                   "product_id", "", "")
             /\ UNCHANGED <<admins, permissions, product_variants, website_information,
                            now, issued, created, schemaTokenExpires, inflight>>

\* UPDATE products SET 'desc' = $1, ... WHERE name = $4 RETURNING product_id
update_product(cookie, name, desc) ==
    LET v == Gate(cookie, "updateproduct")
    IN  IF ~Allowed(v) THEN Refused("update_product", cookie, "updateproduct", v)
        ELSE /\ products' = [k \in DOMAIN products |->
                               IF products[k].name = name
                               THEN [products[k] EXCEPT !.desc = desc]
                               ELSE products[k]]
             /\ result' = Response("update_product", cookie, "updateproduct", v.auth,
                                   v.user,
                                   IF \E k \in DOMAIN products : products[k].name = name
                                   THEN "product_id" ELSE "Error updating product",
                                   "", "")
             /\ UNCHANGED <<admins, permissions, product_variants, website_information,
                            now, issued, created, schemaTokenExpires, inflight>>

\* SELECT product_id ... WHERE name = ?; DELETE FROM product_variants WHERE
\* product_id = ?; DELETE FROM products WHERE name = ?
remove_product(cookie, name) ==
    LET v == Gate(cookie, "removeproduct")
        named == {k \in DOMAIN products : products[k].name = name}
    IN  IF ~Allowed(v) THEN Refused("remove_product", cookie, "removeproduct", v)
        ELSE IF named = {}
        THEN /\ result' = Response("remove_product", cookie, "removeproduct", v.auth,
                                   v.user, "Failed to find product", "", "")
             /\ UNCHANGED <<admins, permissions, catalog, now, issued, created,
                            schemaTokenExpires, inflight>>
        ELSE LET product_id == CHOOSE k \in named : \A j \in named : k <= j
                 kept == {k \in DOMAIN product_variants :
                             product_variants[k].product_id # product_id}
             IN  /\ product_variants' = [k \in kept |-> product_variants[k]]
                 /\ products' = [k \in DOMAIN products \ named |-> products[k]]
                 /\ result' = Response("remove_product", cookie, "removeproduct",
                                       v.auth, v.user, "removed", "", "")
                 /\ UNCHANGED <<admins, permissions, website_information, now, issued,
                                created, schemaTokenExpires, inflight>>

\* insert into product_variants (quantity, tag_name, product_id)
add_product_variant(cookie, tags, quantity, product) ==
    LET v == Gate(cookie, "addvariant")
        normalized == normalized_tags(tags)
    IN  IF ~Allowed(v) THEN Refused("add_product_variant", cookie, "addvariant", v)
        ELSE IF normalized = <<>>
        THEN /\ result' = Response("add_product_variant", cookie, "addvariant", v.auth,
                                   v.user, "Invalid tag name", "", "") @@ [tags |-> tags]
             /\ UNCHANGED <<admins, permissions, catalog, now, issued, created,
                            schemaTokenExpires, inflight>>
        ELSE /\ Cardinality(DOMAIN product_variants) < MaxVariants
             /\ product_variants' =
                    Insert(product_variants,
                           [quantity |-> quantity, tag_name |-> TagText(normalized),
                            product_id |-> product])
             /\ result' = Response("add_product_variant", cookie, "addvariant", v.auth,
                                   v.user, "var_id", "", "") @@ [tags |-> tags]
             /\ UNCHANGED <<admins, permissions, products, website_information, now,
                            issued, created, schemaTokenExpires, inflight>>

\* UPDATE product_variants SET quantity = ?, tag_name = ? WHERE var_id = ?
modify_variant(cookie, tags, quantity, varid) ==
    LET v == Gate(cookie, "updatevariant")
    IN  IF ~Allowed(v) THEN Refused("modify_variant", cookie, "updatevariant", v)
        ELSE /\ product_variants' =
                    [k \in DOMAIN product_variants |->
                        IF k = varid
                        THEN [product_variants[k] EXCEPT
                                 !.quantity = quantity,
                                 !.tag_name = modify_variant_text(tags)]
                        ELSE product_variants[k]]
             /\ result' = Response("modify_variant", cookie, "updatevariant", v.auth,
                                   v.user, "ok", "", "") @@ [tags |-> tags]
             /\ UNCHANGED <<admins, permissions, products, website_information, now,
                            issued, created, schemaTokenExpires, inflight>>

\* select product_id from products where name = $1; select * from
\* product_variants where product_id = $1; each row through try_from.  A row of
\* the answer holds the decoded tag_name and the text sent for it.
get_product_variants(name) ==
    LET named == {k \in DOMAIN products : products[k].name = name}
        reply(status, rows) ==
            Response("get_product_variants", NoCookie, "", NotChecked, "", status, "", "")
                @@ [rows |-> rows]
    IN  /\ result' =
              IF named = {} THEN reply("Could not find product", <<>>)
              ELSE LET product_id == CHOOSE k \in named : \A j \in named : k <= j
                       ids == {k \in DOMAIN product_variants :
                                  product_variants[k].product_id = product_id}
                       variant == [k \in ids |->
                                     try_from_tag_name(product_variants[k].tag_name)]
                   IN  IF \E k \in ids : ~variant[k].ok
                       THEN reply("Could not get tag_name", <<>>)
                       ELSE reply("ok",
                                  [k \in ids |->
                                     [quantity |-> product_variants[k].quantity,
                                      decoded |-> variant[k].tags,
                                      tag_name |-> join_to_string(variant[k].tags)]])
        /\ UNCHANGED <<admins, permissions, catalog, now, issued, created,
                       schemaTokenExpires, inflight>>

\* UPDATE website_information SET desc = CASE name ... END
update_websiteinfo(cookie, info) ==
    LET v == Gate(cookie, "websiteinfo")
    IN  IF ~Allowed(v) THEN Refused("update_websiteinfo", cookie, "websiteinfo", v)
        ELSE /\ website_information' = info
             /\ result' = Response("update_websiteinfo", cookie, "websiteinfo", v.auth,
                                   v.user, "Website information updated successfully.",
                                   "", "")
             /\ UNCHANGED <<admins, permissions, products, product_variants, now, issued,
                            created, schemaTokenExpires, inflight>>

----------------------------------------------------------------------------
(* the clock *)

Tick ==
    /\ result = Idle
    /\ \E t \in Times : t > now /\ now' = t
    /\ UNCHANGED <<admins, permissions, catalog, issued, created, schemaTokenExpires,
                   result, inflight>>

\* the response is sent; the server takes a request when none is being answered
Respond ==
    /\ result # Idle
    /\ result' = Idle
    /\ UNCHANGED <<admins, permissions, catalog, now, issued, created, schemaTokenExpires, inflight>>

----------------------------------------------------------------------------
(* the store when the server starts *)

Capabilities == {"admin", "admincreate", "admindelete", "adminlist", "addproduct",
                 "updateproduct", "removeproduct", "addvariant", "updatevariant",
                 "websiteinfo", "image", "customer"}

\* grants the operator may have stored for alice
SeedGrants == {{"admin"}, {"admin", "admincreate", "admindelete"}, Capabilities}

\* rows the operator may have stored for alice: created with "pw1"; without a
\* token, or with a token written TTL minutes before it expires
SeedRows ==
    LET base(d) == NewRow("pw1", "a1B2c3D4e5F6g7H8", YmdDate(d))
    IN  {base(d) : d \in 0..1}
        \cup {[base(d) EXCEPT !.token = SeedToken,
                              !.token_expiration = SqlDateTime(StartTime + TTL)]
              : d \in 0..1}

Init ==
    /\ \E rows \in {<<>>} \cup {[u \in {"alice"} |-> r] : r \in SeedRows} :
          /\ admins = rows
          /\ created = [u \in Users |-> IF u \in DOMAIN rows THEN "pw1" ELSE ""]
    /\ \E g \in SeedGrants : permissions = {<<"alice", p>> : p \in g}
    /\ products = <<>>
    /\ product_variants = <<>>
    /\ website_information = "v0"
    /\ now = StartTime
    /\ issued = <<>>
    /\ schemaTokenExpires \in BOOLEAN
    /\ result = Idle
    /\ inflight = [c \in Connections |-> NoRequest]

Next ==
    \/ result = Idle /\ \E u \in Users, p \in Passwords : login(u, p)
    \/ result = Idle /\ \E c \in Cookies : logout(c)
    \/ result = Idle /\ \E c \in Cookies : current_user(c)
    \/ result = Idle /\ \E c \in Cookies : admin_menu(c)
    \/ result = Idle /\ \E c \in Cookies : get_admins(c)
    \/ result = Idle /\ \E c \in Cookies, u \in Users, p \in NewPasswords,
                           e \in ExpirationInputs, s \in Salts : create_admin(c, u, p, e, s)
    \/ result = Idle /\ \E c \in Cookies, u \in Users : delete_admin(c, u)
    \/ Tick
    \/ Respond

Spec == Init /\ [][Next]_vars

\* the store when the catalog handlers are exercised: alice holds a stored token
InitCatalog ==
    /\ Init
    /\ "alice" \in DOMAIN admins
    /\ admins["alice"].token = SeedToken

\* the clients' token cookies when no login takes place
CatalogCookies == {NoCookie, EmptyStr, SeedToken}

NextCatalog ==
    \/ result = Idle /\ \E c \in CatalogCookies, n \in ProductNames, d \in ProductDescs :
                           add_product(c, n, d)
    \/ result = Idle /\ \E c \in CatalogCookies, n \in ProductNames, d \in ProductDescs :
                           update_product(c, n, d)
    \/ result = Idle /\ \E c \in CatalogCookies, n \in ProductNames : remove_product(c, n)
    \/ result = Idle /\ \E c \in CatalogCookies, t \in TagInputs, q \in Quantities,
                           p \in 1..MaxProducts : add_product_variant(c, t, q, p)
    \/ result = Idle /\ \E c \in CatalogCookies, t \in TagInputs, q \in Quantities,
                           i \in 1..MaxVariants : modify_variant(c, t, q, i)
    \/ result = Idle /\ \E c \in CatalogCookies, i \in WebsiteInputs :
                           update_websiteinfo(c, i)
    \/ result = Idle /\ \E c \in CatalogCookies, u \in Users : delete_admin(c, u)
    \/ Tick
    \/ Respond

SpecCatalog == InitCatalog /\ [][NextCatalog]_vars

----------------------------------------------------------------------------
(* login, validate_user and logout statement by statement, on two connections *)

\* the handler returns: the connection is free for the next request
Done(c, auth, status) ==
    [inflight EXCEPT ![c].pc = "done", ![c].auth = auth, ![c].status = status]

\* SELECT * FROM admins WHERE username = ?, and the parse of column expiration
login_select(c, username, password) ==
    LET request == [NoRequest EXCEPT !.op = "login", !.username = username,
                                     !.password = password]
    IN  /\ inflight[c].pc \in {"idle", "done"}
        /\ inflight' =
              IF username \notin DOMAIN admins
              THEN [inflight EXCEPT ![c] = [request EXCEPT !.pc = "done",
                                                           !.status = "Database error"]]
              ELSE IF ~parse_expiration_date(admins[username].expiration).ok
              THEN [inflight EXCEPT ![c] = [request EXCEPT !.pc = "done",
                                                           !.status = "Date parse error"]]
              ELSE [inflight EXCEPT ![c] = [request EXCEPT !.pc = "login_check",
                                                           !.row = <<admins[username]>>]]
        /\ UNCHANGED <<admins, permissions, catalog, now, issued, created,
                       schemaTokenExpires, result>>

\* the expiry test with its DELETE, the password test, the token generation
login_check(c) ==
    LET username == inflight[c].username
        row == inflight[c].row[1]
        expiration_date == parse_expiration_date(row.expiration)
    IN  /\ inflight[c].pc = "login_check"
        /\ IF AccountExpired(Day(now), expiration_date.day)
           THEN /\ admins' = IF username \in DOMAIN admins
                             THEN RemoveRow(admins, username) ELSE admins
                /\ created' = [created EXCEPT ![username] = ""]
                /\ inflight' = Done(c, NotChecked, "Admin account has expired and has been removed.")
                /\ UNCHANGED issued
           ELSE IF hash_password(salted(inflight[c].password, row.salt)) = row.password
           THEN LET t == generate_token_and_expiration
                IN  /\ Len(issued) < MaxLogins
                    /\ issued' = Append(issued, username)
                    /\ inflight' = [inflight EXCEPT ![c].pc = "login_update",
                                                    ![c].token = t.token,
                                                    ![c].expiration = t.expiration]
                    /\ UNCHANGED <<admins, created>>
           ELSE /\ inflight' = Done(c, NotChecked, "Invalid username or password.")
                /\ UNCHANGED <<admins, created, issued>>
        /\ UNCHANGED <<permissions, catalog, now, schemaTokenExpires, result>>

\* UPDATE admins SET token = ?, token_expiration = ? WHERE username = ?
login_update(c) ==
    LET username == inflight[c].username
        t == [token |-> inflight[c].token, expiration |-> inflight[c].expiration]
    IN  /\ inflight[c].pc = "login_update"
        /\ admins' = IF username \in DOMAIN admins THEN LoginStore(username, t) ELSE admins
        /\ inflight' = Done(c, NotChecked, "Login successful.")
        /\ UNCHANGED <<permissions, catalog, now, issued, created, schemaTokenExpires,
                       result>>

\* SELECT * FROM admins WHERE token = ?
validate_select(c, token, permission) ==
    LET request == [NoRequest EXCEPT !.op = "validate_user", !.token = token,
                                     !.perm = permission]
        rows == RowsWithToken(token)
    IN  /\ inflight[c].pc \in {"idle", "done"}
        /\ inflight' =
              IF rows = {}
              THEN [inflight EXCEPT ![c] = [request EXCEPT !.pc = "done",
                                                           !.auth = UnknownToken]]
              ELSE LET u == CHOOSE r \in rows : TRUE
                   IN  [inflight EXCEPT ![c] = [request EXCEPT !.pc = "validate_check",
                                                               !.username = u,
                                                               !.row = <<admins[u]>>]]
        /\ UNCHANGED <<admins, permissions, catalog, now, issued, created,
                       schemaTokenExpires, result>>

\* the parse of token_expiration, token_expires > now, SELECT .. FROM permissions
validate_check(c) ==
    LET row == inflight[c].row[1]
        parsed == parse_token_expiration(row.token_expiration)
    IN  /\ inflight[c].pc = "validate_check"
        /\ inflight' =
              IF row.token_expiration = NullText THEN Done(c, RetrieveFailed, "")
              ELSE IF ~parsed.ok THEN Done(c, ParseFailed, "")
              ELSE IF TokenLive(parsed.t, now)
              THEN IF HasPermission(inflight[c].username, inflight[c].perm)
                   THEN Done(c, Ok, "") ELSE Done(c, Forbidden, "")
              ELSE [inflight EXCEPT ![c].pc = "validate_cleanup"]
        /\ UNCHANGED <<admins, permissions, catalog, now, issued, created,
                       schemaTokenExpires, result>>

\* UPDATE admins SET token = NULL, token_expires = NULL WHERE token = ?; the
\* status keeps the number of rows the statement changed
validate_cleanup(c) ==
    LET cleared == ClearExpired(inflight[c].token)
    IN  /\ inflight[c].pc = "validate_cleanup"
        /\ admins' = cleared.admins
        /\ inflight' = IF cleared.ok
                       THEN Done(c, TokenExpired,
                                 IF RowsWithToken(inflight[c].token) = {}
                                 THEN "0 rows" ELSE "1 row")
                       ELSE Done(c, CleanupFailed, "")
        /\ UNCHANGED <<permissions, catalog, now, issued, created, schemaTokenExpires,
                       result>>

\* logout: UPDATE admins SET token = NULL, token_expiration = NULL WHERE token = ?
logout_update(c, cookie) ==
    /\ inflight[c].pc \in {"idle", "done"}
    /\ admins' = [u \in DOMAIN admins |->
                    IF admins[u].token = cookie
                    THEN [admins[u] EXCEPT !.token = NULL, !.token_expiration = NullText]
                    ELSE admins[u]]
    /\ inflight' = [inflight EXCEPT ![c] = [NoRequest EXCEPT !.pc = "done",
                                                             !.op = "logout",
                                                             !.token = cookie]]
    /\ UNCHANGED <<permissions, catalog, now, issued, created, schemaTokenExpires,
                   result>>

\* the store when requests race: alice has a row and every capability
InitRace ==
    /\ Init
    /\ "alice" \in DOMAIN admins
    /\ permissions = {<<"alice", p>> : p \in Capabilities}

NextRace ==
    \/ \E c \in Connections, p \in Passwords : login_select(c, "alice", p)
    \/ \E c \in Connections : login_check(c)
    \/ \E c \in Connections : login_update(c)
    \/ \E c \in Connections, t \in Cookies \ {NoCookie, EmptyStr} :
          validate_select(c, t, "admin")
    \/ \E c \in Connections : validate_check(c)
    \/ \E c \in Connections : validate_cleanup(c)
    \/ \E c \in Connections, t \in Cookies \ {NoCookie, EmptyStr} : logout_update(c, t)
    \/ Tick

SpecRace == InitRace /\ [][NextRace]_vars

\* the tag lists a variant form may submit when the tag codec is exercised
TagSubmissions ==
    TagInputs \cup {<<Fitted(TRUE), Fitted(FALSE)>>,
                    <<Size("-Large"), Color("Red"), Fitted(TRUE)>>}

\* attribute texts a variant row may already hold when the server starts
StoredTexts ==
    {TagText(<<>>), TagText(<<"sizesmall", "snap">>),
     TagText(<<"size-Large", "colorRed", "unknowntoken", "fitted">>)}

\* the store when the tag codec is exercised: alice holds a live token and every
\* capability; table product_variants is empty or holds one stored row
InitTags ==
    /\ admins = [u \in {"alice"} |->
                   [NewRow("pw1", "a1B2c3D4e5F6g7H8", YmdDate(1)) EXCEPT
                       !.token = SeedToken,
                       !.token_expiration = SqlDateTime(StartTime + TTL)]]
    /\ created = [u \in Users |-> IF u = "alice" THEN "pw1" ELSE ""]
    /\ permissions = {<<"alice", p>> : p \in Capabilities}
    /\ products = <<>>
    /\ product_variants \in
          {<<>>} \cup {<<[quantity |-> 3, tag_name |-> t, product_id |-> 1]>> :
                          t \in StoredTexts}
    /\ website_information = "v0"
    /\ now = StartTime
    /\ issued = <<>>
    /\ schemaTokenExpires \in BOOLEAN
    /\ result = Idle
    /\ inflight = [c \in Connections |-> NoRequest]

NextTags ==
    \/ result = Idle /\ \E c \in CatalogCookies, n \in ProductNames, d \in ProductDescs :
                           add_product(c, n, d)
    \/ result = Idle /\ \E c \in CatalogCookies, t \in TagSubmissions, q \in Quantities,
                           p \in 1..MaxProducts : add_product_variant(c, t, q, p)
    \/ result = Idle /\ \E c \in CatalogCookies, t \in TagSubmissions, q \in Quantities,
                           i \in 1..MaxVariants : modify_variant(c, t, q, i)
    \/ result = Idle /\ \E n \in ProductNames : get_product_variants(n)
    \/ Respond

SpecTags == InitTags /\ [][NextTags]_vars

----------------------------------------------------------------------------
(* Properties *)

ExpiredMessage == "Admin account has expired and has been removed."

\* the handler that produced the response called validate_user
Checked(r) == r.auth # NotChecked

\* the account's expiration column holds a date, and that date has not passed
NotExpired(row) ==
    /\ parse_expiration_date(row.expiration).ok
    /\ Day(now) <= parse_expiration_date(row.expiration).day

\* C1: validate_user returns Ok(username) only if, when it is called, the admins
\* row of username stores the presented token, that row's token_expiration is
\* strictly later than now, and the permissions row (username, permission) exists.
C1_OkOnlyIfAuthorized ==
    [][ result'.auth = Ok =>
          /\ result'.user \in DOMAIN admins
          /\ admins[result'.user].token = TokenOrEmpty(result'.token)
          /\ admins[result'.user].token_expiration # NullText
          /\ admins[result'.user].token_expiration.t > now
          /\ <<result'.user, result'.perm>> \in permissions ]_vars

\* a handler was let through by validate_user
C1_Witness == result.op = "get_admins" /\ result.auth = Ok

\* C2: while an account that has not expired stores the token a login issued for
\* it and the token's five minutes have not elapsed, validate_user with that token
\* returns Ok for every permission granted to the account and Forbidden for every
\* other permission.
C2_LoginTokenAuthorizes ==
    \A u \in DOMAIN admins :
        ( /\ Checked(result)
          /\ TokenOrEmpty(result.token) = admins[u].token
          /\ admins[u].token[1] = "uuid"
          /\ now < admins[u].token_expiration.t
          /\ NotExpired(admins[u]) )
        => result.auth = IF <<u, result.perm>> \in permissions THEN Ok ELSE Forbidden

\* C3: create_admin inserts an admins row and its permission row only when
\* validate_user(token, "admincreate") succeeded, and a request without a token
\* cookie changes no table.
C3_CreateAdminNeedsToken ==
    [][ result'.op = "create_admin" =>
          /\ (DOMAIN admins' # DOMAIN admins \/ permissions' # permissions)
                => result'.auth = Ok
          /\ result'.token = NoCookie
                => UNCHANGED <<admins, permissions, catalog>> ]_vars

PrivilegedOps == {"add_product", "update_product", "remove_product",
                  "add_product_variant", "modify_variant", "update_websiteinfo",
                  "delete_admin"}

CapabilityOf(op) ==
    CASE op = "add_product" -> "addproduct"
      [] op = "update_product" -> "updateproduct"
      [] op = "remove_product" -> "removeproduct"
      [] op = "add_product_variant" -> "addvariant"
      [] op = "modify_variant" -> "updatevariant"
      [] op = "update_websiteinfo" -> "websiteinfo"
      [] op = "delete_admin" -> "admindelete"
      [] OTHER -> ""

C5_OlderTokenUnknown ==
    \A i, j \in 1..Len(issued) :
        ( /\ i < j
          /\ issued[i] = issued[j]
          /\ Checked(result)
          /\ TokenOrEmpty(result.token) = Uuid(i) )
        => result.auth = UnknownToken

\* the token of the first of two logins of one account was presented
C5_Witness ==
    /\ Len(issued) >= 2
    /\ issued[1] = issued[2]
    /\ result.op = "admin_menu"
    /\ result.token = Uuid(1)
    /\ result.auth = UnknownToken

\* C6: for an existing account whose expiration date has not passed, login issues
\* a token exactly when the submitted password is the one the account was created
\* with; with another password it answers InvalidCredentials and leaves every
\* account's token and token_expiration unchanged.
C6_PasswordDecidesLogin ==
    [][ ( /\ result'.op = "login"
          /\ result'.username \in DOMAIN admins
          /\ NotExpired(admins[result'.username]) )
        => /\ (result'.status = "Login successful.")
                 <=> (result'.password = created[result'.username])
           /\ (result'.password # created[result'.username])
                 => /\ result'.status = "Invalid username or password."
                    /\ admins' = admins ]_vars

\* a login with a wrong password was refused while a token was stored
C6_Witness ==
    /\ result.op = "login"
    /\ result.status = "Invalid username or password."
    /\ result.username \in DOMAIN admins
    /\ admins[result.username].token # NULL

\* C7: a login for an account whose expiration date is strictly before the current
\* date answers AccountExpired whatever the password and deletes the row; a login
\* for an account whose date is today or later keeps the row; a login for a
\* username without a row finds no account and changes nothing.
C7_ExpiredAccountDeleted ==
    [][ result'.op = "login" =>
          IF result'.username \notin DOMAIN admins
          THEN result'.status = "Database error" /\ admins' = admins
          ELSE parse_expiration_date(admins[result'.username].expiration).ok =>
                 IF Day(now) > parse_expiration_date(admins[result'.username].expiration).day
                 THEN /\ result'.status = ExpiredMessage
                      /\ admins' = RemoveRow(admins, result'.username)
                 ELSE /\ result'.status # ExpiredMessage
                      /\ result'.username \in DOMAIN admins' ]_vars

\* a login with the account's own password found the account expired and removed it
C7_Witness ==
    /\ result.op = "login"
    /\ result.status = ExpiredMessage
    /\ result.password = "pw1"
    /\ result.username = "alice"
    /\ "alice" \notin DOMAIN admins

\* C8: validate_user never returns Ok for a token stored on an account whose
\* expiration date the current date has passed.
C8_ExpiredAccountVoid ==
    (result.auth = Ok /\ result.user \in DOMAIN admins
        /\ parse_expiration_date(admins[result.user].expiration).ok)
    => Day(now) <= parse_expiration_date(admins[result.user].expiration).day

\* C9: validate_user called with a token whose stored token_expiration is at or
\* before now answers TokenExpired and clears that account's token and
\* token_expiration.
C9_ExpiredTokenCleared ==
    [][ \A u \in DOMAIN admins :
          ( /\ result = Idle
            /\ Checked(result')
            /\ admins[u].token = TokenOrEmpty(result'.token)
            /\ parse_token_expiration(admins[u].token_expiration).ok
            /\ parse_token_expiration(admins[u].token_expiration).t <= now )
          => /\ result'.auth = TokenExpired
             /\ admins'[u].token = NULL
             /\ admins'[u].token_expiration = NullText ]_vars

\* C10: a token whose token_expiration is equal to now, or earlier, is not
\* accepted: validate_user takes the expired branch, and returns neither Ok nor
\* Forbidden.
C10_EqualIsExpired ==
    [][ \A u \in DOMAIN admins :
          ( /\ result = Idle
            /\ Checked(result')
            /\ admins[u].token = TokenOrEmpty(result'.token)
            /\ admins[u].token_expiration # NullText
            /\ admins[u].token_expiration.t <= now )
          => /\ result'.auth \notin {Ok, Forbidden}
             /\ parse_token_expiration(admins[u].token_expiration).ok
                   => result'.auth \in {TokenExpired, CleanupFailed} ]_vars

\* a token was presented in the very minute its token_expiration names
C10_Witness ==
    /\ Checked(result)
    /\ result.auth = CleanupFailed
    /\ \E u \in DOMAIN admins :
          /\ admins[u].token = result.token
          /\ admins[u].token_expiration = SqlDateTime(now)

\* C11: a token whose stored token_expiration has passed is resolved to a username
\* by no operation that consumes a token: neither validate_user (Ok) nor
\* current_user (Some) answers with the account that stores it.
C11_ExpiredTokenResolvesNobody ==
    ( /\ result.op \in {"current_user", "admin_menu", "get_admins", "create_admin",
                        "delete_admin"}
      /\ result.user \in DOMAIN admins
      /\ admins[result.user].token = TokenOrEmpty(result.token)
      /\ admins[result.user].token_expiration # NullText )
    => admins[result.user].token_expiration.t >= now

\* C12: logout with token T clears token and token_expiration of exactly the rows
\* storing T, changes no other row and no other table, and reports no error; after
\* it no row stores T, so a second logout with T finds nothing to change.
C12_LogoutClearsOnlyItsAccount ==
    [][ result'.op = "logout" =>
          /\ UNCHANGED <<permissions, catalog>>
          /\ result'.status = ""
          /\ DOMAIN admins' = DOMAIN admins
          /\ \A u \in DOMAIN admins :
                /\ admins'[u] =
                      IF result'.token # NoCookie /\ admins[u].token = result'.token
                      THEN [admins[u] EXCEPT !.token = NULL,
                                             !.token_expiration = NullText]
                      ELSE admins[u]
                /\ result'.token # NoCookie => admins'[u].token # result'.token ]_vars

\* the token of alice's only login was presented to logout and her row, never
\* re-created, stores neither token nor token_expiration
C12_Witness ==
    /\ result.op = "logout"
    /\ result.token = Uuid(1)
    /\ issued = <<"alice">>
    /\ created["alice"] = "pw1"
    /\ "alice" \in DOMAIN admins
    /\ admins["alice"].token = NULL
    /\ admins["alice"].token_expiration = NullText

\* C13: when create_admin succeeds, the admins row of the username holds the
\* submitted expiration, its token and token_expiration are NULL, and a
\* permissions row of the username exists.
C13_CreatedAccount ==
    [][ (result'.op = "create_admin"
            /\ result'.status = "Admin user created successfully.")
        => /\ result'.username \in DOMAIN admins'
           /\ admins'[result'.username].expiration = result'.expiration
           /\ admins'[result'.username].token = NULL
           /\ admins'[result'.username].token_expiration = NullText
           /\ \E g \in permissions' : g[1] = result'.username ]_vars

\* bob, who had no row, was created
C13_Witness ==
    /\ result.op = "create_admin"
    /\ result.status = "Admin user created successfully."
    /\ result.username = "bob"
    /\ "bob" \in DOMAIN admins
    /\ <<"bob", "admin">> \in permissions

StorageFailure == "Database error"

\* C15: login for a username without an admins row answers with an outcome other
\* than the one reported for backing-store errors, and changes nothing.
C15_AccountNotFoundDistinct ==
    [][ (result'.op = "login" /\ result'.username \notin DOMAIN admins)
        => /\ result'.status # StorageFailure
           /\ UNCHANGED <<admins, permissions, catalog>> ]_vars

\* C16: validate_user called with the empty token fails with an outcome of its
\* own, which is not the UnknownToken outcome, for every permission.
C16_EmptyTokenIsNoToken ==
    (Checked(result) /\ TokenOrEmpty(result.token) = EmptyStr)
    => result.auth \notin {Ok, UnknownToken}

SetOf(seq) == {seq[i] : i \in 1..Len(seq)}

\* C17: decoding the space-joined text that VarTag::to_string produces for a
\* sequence of recognized attributes yields the same set of attributes, and
\* Fitted(true), Fitted(false) are encoded as exactly "fitted", "snap".
C17_RoundTrip ==
    (result.op = "get_product_variants" /\ result.status = "ok")
    => \A k \in DOMAIN result.rows :
          LET attrs == result.rows[k].decoded
              text == result.rows[k].tag_name
          IN  /\ try_from_tag_name(text).ok
              /\ SetOf(try_from_tag_name(text).tags) = SetOf(attrs)
              /\ \A i \in 1..Len(attrs) :
                    /\ attrs[i] = Fitted(TRUE) => text.tokens[i] = "fitted"
                    /\ attrs[i] = Fitted(FALSE) => text.tokens[i] = "snap"

\* the token t is one the decoder recognizes
Recognized(t) ==
    \/ t \in {"fitted", "snap"}
    \/ \E r \in Rests : t = "size" \o r \/ t = "color" \o r

\* the attribute a is what the token t stands for
Stands(t, a) ==
    \/ a.kind = "Size" /\ t = "size" \o a.label
    \/ a.kind = "Color" /\ t = "color" \o a.label
    \/ a = Fitted(TRUE) /\ t = "fitted"
    \/ a = Fitted(FALSE) /\ t = "snap"

\* C18: decoding a stored attribute text does not fail: the decoded sequence
\* holds, in the order of their tokens, Size(rest) for each token starting with
\* "size", Color(rest) for each starting with "color", Fitted(true) for "fitted",
\* Fitted(false) for "snap", and nothing for any other token.
C18_DecodeByToken ==
    result.op = "get_product_variants" =>
        /\ result.status = "Could not get tag_name"
              => \E k \in DOMAIN product_variants : product_variants[k].tag_name.null
        /\ result.status = "ok"
              => \A k \in DOMAIN result.rows :
                    LET tokens == SelectSeq(product_variants[k].tag_name.tokens,
                                            LAMBDA t : t # "")
                        kept == {i \in 1..Len(tokens) : Recognized(tokens[i])}
                        d == result.rows[k].decoded
                    IN  /\ Len(d) = Cardinality(kept)
                        /\ \A i \in kept :
                              Stands(tokens[i], d[Cardinality({j \in kept : j <= i})])

\* the stored text "size-Large colorRed unknowntoken fitted" was decoded
C18_Witness ==
    /\ result.op = "get_product_variants"
    /\ result.status = "ok"
    /\ \E k \in DOMAIN result.rows :
          /\ product_variants[k].tag_name =
                TagText(<<"size-Large", "colorRed", "unknowntoken", "fitted">>)
          /\ result.rows[k].decoded = <<Size("-Large"), Color("Red"), Fitted(TRUE)>>

\* C19: add_product_variant rejects the submission and inserts no row whenever
\* at least one submitted tag has no match in the canonical table.
C19_OneBadTagRejects ==
    [][ ( /\ result'.op = "add_product_variant"
          /\ result'.auth = Ok
          /\ \E i \in 1..Len(result'.tags) :
                \A m \in 1..Len(tag_mapping) : tag_mapping[m][2] # result'.tags[i] )
        => /\ result'.status = "Invalid tag name"
           /\ product_variants' = product_variants ]_vars

\* C20: the attribute text add_product_variant or modify_variant writes to a row
\* is decoded by the read path, without error, to the set of attributes that was
\* submitted; an empty list is written as the empty string.
C20_WrittenTextReadsBack ==
    [][ (result'.op \in {"add_product_variant", "modify_variant"} /\ result'.auth = Ok)
        => \A k \in DOMAIN product_variants' :
              (k \notin DOMAIN product_variants
                  \/ product_variants'[k] # product_variants[k])
              => LET text == product_variants'[k].tag_name
                 IN  /\ try_from_tag_name(text).ok
                     /\ SetOf(try_from_tag_name(text).tags) = SetOf(result'.tags)
                     /\ result'.tags = <<>> => text = TagText(<<>>) ]_vars

\* C21: for a token whose token_expiration is at or before now, validate_user
\* returns TokenExpired whatever permission is requested and whether or not the
\* account holds it.
C21_ExpiredBeforePermission ==
    [][ \A u \in DOMAIN admins :
          ( /\ result = Idle
            /\ Checked(result')
            /\ admins[u].token = TokenOrEmpty(result'.token)
            /\ parse_token_expiration(admins[u].token_expiration).ok
            /\ parse_token_expiration(admins[u].token_expiration).t <= now )
          => result'.auth = TokenExpired ]_vars

\* C24: the token of an account changes only by a successful login for that
\* account, which stores the token it issues, by logout with the stored token, or
\* by the expiry cleanup of validate_user called with the stored token, the last
\* two leaving it absent; the row create_admin inserts stores no token.
C24_TokenStateMachine ==
    [][ /\ \A u \in DOMAIN admins' \ DOMAIN admins : admins'[u].token = NULL
        /\ \A u \in DOMAIN admins \cap DOMAIN admins' :
              admins'[u].token # admins[u].token
              => \/ /\ result'.op = "login"
                    /\ result'.status = "Login successful."
                    /\ result'.username = u
                    /\ admins'[u].token = result'.token
                    /\ issued' = Append(issued, u)
                 \/ /\ admins'[u].token = NULL
                    /\ result'.op = "logout"
                    /\ result'.token = admins[u].token
                 \/ /\ admins'[u].token = NULL
                    /\ result'.auth = TokenExpired
                    /\ TokenOrEmpty(result'.token) = admins[u].token ]_vars

\* an expired token was presented and the cleanup left the account without token
C24_Witness ==
    /\ result.auth = TokenExpired
    /\ result.token = SeedToken
    /\ "alice" \in DOMAIN admins
    /\ created["alice"] = "pw1"
    /\ admins["alice"].token = NULL

\* C25: no operation deletes a permissions row; delete_admin and login leave
\* table permissions as it is, so an account created with the username of a
\* deleted one holds every grant of the deleted one.
C25_GrantsNeverDeleted ==
    [][ /\ permissions \subseteq permissions'
        /\ result'.op \in {"delete_admin", "login"} => permissions' = permissions
        /\ result'.op = "create_admin"
              => \A g \in permissions :
                    g[1] = result'.username => HasPermission(g[1], g[2])' ]_vars

\* alice was deleted and created again, and holds the grant stored for the first
C25_Witness ==
    /\ result.op = "create_admin"
    /\ result.username = "alice"
    /\ "alice" \in DOMAIN admins
    /\ created["alice"] = "pw2"
    /\ <<"alice", "admindelete">> \in permissions

\* the permissions stored for username
GrantsOf(username) == {g[2] : g \in {h \in permissions : h[1] = username}}

C27_NoSlidingRenewal ==
    [][ /\ (result'.op \in {"admin_menu", "get_admins"} /\ result'.auth \in {Ok, Forbidden})
              => UNCHANGED <<admins, permissions, catalog>>
        /\ \A u \in DOMAIN admins \cap DOMAIN admins' :
              (admins[u].token # NULL /\ admins'[u].token = admins[u].token)
              => admins'[u].token_expiration = admins[u].token_expiration
        /\ (result'.op = "login" /\ result'.status = "Login successful.")
              => admins'[result'.username].token_expiration.t = now + TTL ]_vars

\* a token was accepted after time had passed, its expiration still as written
C27_Witness ==
    /\ result.op = "admin_menu"
    /\ result.auth = Ok
    /\ now > StartTime
    /\ admins[result.user].token_expiration = SqlDateTime(StartTime + TTL)

\* C28: after delete_admin(username) succeeds, validate_user answers
\* "Token does not exist." for the token the account stored, for every
\* permission, also when the caller deleted its own account; every other row is
\* as before.
C28_DeletedTokensUnknown ==
    [][ (result'.op = "delete_admin"
            /\ result'.status = "Admin user deleted successfully.")
        => /\ result'.username \notin DOMAIN admins'
           /\ \A u \in DOMAIN admins \ {result'.username} :
                 u \in DOMAIN admins' /\ admins'[u] = admins[u]
           /\ \A T \in Cookies \ {NoCookie, EmptyStr}, p \in Capabilities :
                 ( /\ result'.username \in DOMAIN admins
                   /\ admins[result'.username].token = T )
                 => (validate_user(T, p).auth)' = UnknownToken ]_vars

\* the caller deleted its own account
C28_Witness ==
    /\ result.op = "delete_admin"
    /\ result.status = "Admin user deleted successfully."
    /\ result.user = result.username
    /\ result.username \notin DOMAIN admins

\* C29: when the INSERT into admins succeeds and the INSERT into permissions
\* fails, create_admin answers with an error, the inserted admins row stays with
\* the submitted credentials, and no permissions row was added.
C29_NoRollback ==
    [][ ( /\ result'.op = "create_admin"
          /\ result'.status = "InternalServerError"
          /\ result'.username \notin DOMAIN admins )
        => /\ result'.username \in DOMAIN admins'
           /\ admins'[result'.username].expiration = result'.expiration
           /\ admins'[result'.username].password =
                 hash_password(salted(created'[result'.username],
                                      admins'[result'.username].salt))
           /\ permissions' = permissions ]_vars

\* the second INSERT failed and the account is stored
C29_Witness ==
    /\ result.op = "create_admin"
    /\ result.status = "InternalServerError"
    /\ "expiration" \in DOMAIN result
    /\ result.username \in DOMAIN admins
    /\ created[result.username] = "pw2"

SuccessfulLogin(c) ==
    /\ inflight[c].pc = "done"
    /\ inflight[c].op = "login"
    /\ inflight[c].status = "Login successful."

\* C22: when two logins for one account, interleaved in any way, have both
\* succeeded, the account's row stores the token of one of them together with the
\* expiration generated with that token, and validate_user rejects the token of
\* the other.
C22_LastWriterWins ==
    \A c, d \in Connections :
        ( /\ c # d
          /\ SuccessfulLogin(c)
          /\ SuccessfulLogin(d)
          /\ inflight[c].username = inflight[d].username )
        => /\ inflight[c].username \in DOMAIN admins
           /\ \E w \in {c, d} :
                 /\ admins[inflight[w].username].token = inflight[w].token
                 /\ admins[inflight[w].username].token_expiration =
                       to_rfc3339(inflight[w].expiration)
                 /\ \A l \in {c, d} \ {w}, p \in Capabilities :
                       validate_user(inflight[l].token, p).auth = UnknownToken

\* the login that generated its token first wrote it last, and its token stays
C22_Witness ==
    /\ SuccessfulLogin(1)
    /\ SuccessfulLogin(2)
    /\ inflight[1].token = Uuid(1)
    /\ inflight[2].token = Uuid(2)
    /\ "alice" \in DOMAIN admins
    /\ admins["alice"].token = Uuid(1)

\* C23: the cleanup statement of validate_user, whatever ran between the SELECT
\* of the call and it, changes only rows that still store the expired token the
\* call observed, leaves no row storing that token when it succeeds, and so
\* changes nothing when a login has replaced the token or another cleanup has
\* cleared it.
C23_CleanupRaceBenign ==
    [][ \A c \in Connections :
          (inflight[c].pc = "validate_cleanup" /\ inflight'[c].pc = "done")
          => /\ parse_token_expiration(inflight[c].row[1].token_expiration).t <= now
             /\ DOMAIN admins' = DOMAIN admins
             /\ \A u \in DOMAIN admins :
                   IF admins[u].token = inflight[c].token
                   THEN admins'[u] = admins[u] \/ admins'[u].token = NULL
                   ELSE admins'[u] = admins[u]
             /\ inflight'[c].auth = TokenExpired
                   => \A u \in DOMAIN admins' : admins'[u].token # inflight[c].token ]_vars

\* a login stored its token between the SELECT and the cleanup of a validate_user
\* call for the expired token: the cleanup changed no row and the login's token
\* is stored
C23_Witness ==
    \E c, d \in Connections :
        /\ inflight[c].pc = "done"
        /\ inflight[c].op = "validate_user"
        /\ inflight[c].auth = TokenExpired
        /\ inflight[c].status = "0 rows"
        /\ SuccessfulLogin(d)
        /\ "alice" \in DOMAIN admins
        /\ admins["alice"].token = inflight[d].token

====
